---- MODULE Spec2Model ----
(***************************************************************************)
(* A state-machine model of gallifreyan.py: translate_word (the digraph    *)
(* scanner) followed by the module-level layout script that draws the word *)
(* circle and one shape per Gallifreyan letter.                            *)
(*                                                                         *)
(* Representation choices:                                                 *)
(*  - a word is a sequence of one-character strings; a Gallifreyan letter  *)
(*    is a string ("a", "ch", ...); Python's None is the string "None".    *)
(*  - Python 2 integer division is \div.                                   *)
(*  - the float Arc = 360.0 / N and its multiples are kept as exact        *)
(*    fractions [num, den].                                                *)
(*  - position() needs sin/cos; a point is kept in the polar form          *)
(*    [center, radius, angle] of the arguments position() is called with.  *)
(*  - an exception is pc = "error" with the exception's name in error.     *)
(***************************************************************************)
EXTENDS Integers, Sequences, FiniteSets, TLC

\* ------------------------------------------------------------------ bounds
\* words over the whole alphabet a-z have at most MaxLen characters
MaxLen == 2
\* words over the letters of Core have at most MaxCoreLen characters
MaxCoreLen == 4

Letters ==
    {"a", "b", "c", "d", "e", "f", "g", "h", "i", "j", "k", "l", "m",
     "n", "o", "p", "q", "r", "s", "t", "u", "v", "w", "x", "y", "z"}

\* the letters the scanner's digraph and "c" rules mention, plus "e"
Core == {"a", "c", "e", "g", "h", "k", "l", "n", "q", "s", "t", "u"}

WordsOver(S, n) == UNION {[1..k -> S] : k \in 0..n}

Words == WordsOver(Letters, MaxLen) \cup WordsOver(Core, MaxCoreLen)

\* for the termination check, words over Core have at most MaxFairLen characters
MaxFairLen == 3

FairWords == WordsOver(Letters, MaxLen) \cup WordsOver(Core, MaxFairLen)

\* --------------------------------------------------------------- constants
ImageSize == 300

None == "None"
IndexError == "IndexError"

POS_ON == 1
POS_IN == 2
POS_HALF == 3
POS_THRU == 4

letter_shapes ==
    [b |-> POS_ON, ch |-> POS_ON, d |-> POS_ON, f |-> POS_ON, g |-> POS_ON,
     h |-> POS_ON,
     j |-> POS_IN, k |-> POS_IN, l |-> POS_IN, m |-> POS_IN, n |-> POS_IN,
     p |-> POS_IN,
     t |-> POS_HALF, sh |-> POS_HALF, r |-> POS_HALF, s |-> POS_HALF,
     v |-> POS_HALF, w |-> POS_HALF,
     th |-> POS_THRU, y |-> POS_THRU, z |-> POS_THRU, ng |-> POS_THRU,
     qu |-> POS_THRU, x |-> POS_THRU]

letter_dots ==
    [b |-> 0, ch |-> 2, d |-> 3, f |-> 0, g |-> 0, h |-> 0,
     j |-> 0, k |-> 2, l |-> 3, m |-> 0, n |-> 0, p |-> 0,
     t |-> 0, sh |-> 2, r |-> 3, s |-> 0, v |-> 0, w |-> 0,
     th |-> 0, y |-> 2, z |-> 3, ng |-> 0, qu |-> 0, x |-> 0]

letter_lines ==
    [b |-> 0, ch |-> 0, d |-> 0, f |-> 3, g |-> 1, h |-> 2,
     j |-> 0, k |-> 0, l |-> 0, m |-> 3, n |-> 1, p |-> 2,
     t |-> 0, sh |-> 0, r |-> 0, s |-> 3, v |-> 1, w |-> 2,
     th |-> 0, y |-> 0, z |-> 0, ng |-> 3, qu |-> 1, x |-> 2]

Indent == ImageSize \div 8
Center == ImageSize \div 2
Radius == (ImageSize - 2 * Indent) \div 2
Radius2 == ImageSize \div 10
Extra == Radius2

\* ------------------------------------------------------------------- state
VARIABLES
    word,       \* sys.argv[1].lower(), the argument of translate_word
    pc,         \* position in the script
    i,          \* translate_word's cursor
    letters,    \* translate_word's list, then the module-level letters
    Arc,        \* degrees between letters, a fraction; Unset before line 240
    l,          \* the for loop's index
    drawn,      \* the calls made on draw, in order
    shown,      \* im.show() was called
    error       \* name of the uncaught exception, "" if none

vars == <<word, pc, i, letters, Arc, l, drawn, shown, error>>

length == Len(word)

\* ---------------------------------------------------------- translate_word
EasyLetters_no_k ==
    {"a", "b", "d", "e", "f", "g", "h", "i", "j", "l", "m",
     "o", "p", "r", "u", "v", "w", "x", "y", "z"}

\* the list of "easy letters", appended as they are
EasyLetters ==
    {"a", "b", "d", "e", "f", "g", "h", "i", "j", "k", "l", "m",
     "o", "p", "r", "u", "v", "w", "x", "y", "z"}

HardFollowers == {"a", "o", "u", "l", "r", None}

\* Python's w[k] (0-based): raises IndexError outside the sequence
Index(w, k) == IF k >= 0 /\ k < Len(w) THEN w[k + 1] ELSE IndexError

Lookahead_unguarded(w, k) == Index(w, k)

\* c2 = word[i] if i < length else None
Lookahead(w, k) == IF k < Len(w) THEN Index(w, k) ELSE None

Digraph_no_th(c, c2) ==
    IF c = "c" THEN
        IF c2 = "h" THEN [out |-> <<"ch">>, skip |-> 1]
        ELSE IF c2 = "k" THEN [out |-> <<"k">>, skip |-> 1]
        ELSE IF c2 \in HardFollowers THEN [out |-> <<"k">>, skip |-> 0]
        ELSE [out |-> <<"s">>, skip |-> 0]
    ELSE IF c = "n" THEN
        IF c2 = "g" THEN [out |-> <<"ng">>, skip |-> 1]
        ELSE [out |-> <<c>>, skip |-> 0]
    ELSE IF c = "q" THEN
        IF c2 = "u" THEN [out |-> <<"qu">>, skip |-> 1]
        ELSE [out |-> <<c>>, skip |-> 0]
    ELSE IF c = "s" THEN
        IF c2 = "h" THEN [out |-> <<"sh">>, skip |-> 1]
        ELSE [out |-> <<c>>, skip |-> 0]
    ELSE IF c = "t" THEN [out |-> <<c>>, skip |-> 0]
    ELSE [out |-> <<>>, skip |-> 0]

Digraph_hard_c_not_last(c, c2) ==
    IF c = "c" THEN
        IF c2 = "h" THEN [out |-> <<"ch">>, skip |-> 1]
        ELSE IF c2 = "k" THEN [out |-> <<"k">>, skip |-> 1]
        ELSE IF c2 \in HardFollowers \ {None} THEN [out |-> <<"k">>, skip |-> 0]
        ELSE [out |-> <<"s">>, skip |-> 0]
    ELSE IF c = "n" THEN
        IF c2 = "g" THEN [out |-> <<"ng">>, skip |-> 1]
        ELSE [out |-> <<c>>, skip |-> 0]
    ELSE IF c = "q" THEN
        IF c2 = "u" THEN [out |-> <<"qu">>, skip |-> 1]
        ELSE [out |-> <<c>>, skip |-> 0]
    ELSE IF c = "s" THEN
        IF c2 = "h" THEN [out |-> <<"sh">>, skip |-> 1]
        ELSE [out |-> <<c>>, skip |-> 0]
    ELSE IF c = "t" THEN
        IF c2 = "h" THEN [out |-> <<"th">>, skip |-> 1]
        ELSE [out |-> <<c>>, skip |-> 0]
    ELSE [out |-> <<>>, skip |-> 0]

\* the "Test for digraphs" chain: the letters appended for c with next
\* letter c2, and how many further characters are consumed
Digraph(c, c2) ==
    IF c = "c" THEN
        IF c2 = "h" THEN [out |-> <<"ch">>, skip |-> 1]
        ELSE IF c2 = "k" THEN [out |-> <<"k">>, skip |-> 1]
        ELSE IF c2 \in HardFollowers THEN [out |-> <<"k">>, skip |-> 0]
        ELSE [out |-> <<"s">>, skip |-> 0]
    ELSE IF c = "n" THEN
        IF c2 = "g" THEN [out |-> <<"ng">>, skip |-> 1]
        ELSE [out |-> <<c>>, skip |-> 0]
    ELSE IF c = "q" THEN
        IF c2 = "u" THEN [out |-> <<"qu">>, skip |-> 1]
        ELSE [out |-> <<c>>, skip |-> 0]
    ELSE IF c = "s" THEN
        IF c2 = "h" THEN [out |-> <<"sh">>, skip |-> 1]
        ELSE [out |-> <<c>>, skip |-> 0]
    ELSE IF c = "t" THEN
        IF c2 = "h" THEN [out |-> <<"th">>, skip |-> 1]
        ELSE [out |-> <<c>>, skip |-> 0]
    ELSE [out |-> <<>>, skip |-> 0]

Raise(e) ==
    /\ pc' = "error"
    /\ error' = e

\* one iteration of the while loop of translate_word
TranslateStep ==
    /\ pc = "translate"
    /\ i < length
    /\ LET c == Index(word, i)
           j == i + 1
       IN  IF c = IndexError
           THEN Raise(IndexError) /\ UNCHANGED <<i, letters>>
           ELSE IF c \in EasyLetters
           THEN /\ letters' = Append(letters, c)
                /\ i' = j
                /\ UNCHANGED <<pc, error>>
           ELSE LET c2 == Lookahead(word, j)
                IN  IF c2 = IndexError
                    THEN /\ Raise(IndexError)
                         /\ i' = j
                         /\ UNCHANGED letters
                    ELSE /\ letters' = letters \o Digraph(c, c2).out
                         /\ i' = j + Digraph(c, c2).skip
                         /\ UNCHANGED <<pc, error>>
    /\ UNCHANGED <<word, Arc, l, drawn, shown>>

\* the loop condition fails: return letters; the script goes on to line 227
TranslateReturn ==
    /\ pc = "translate"
    /\ ~(i < length)
    /\ pc' = "arc"
    /\ UNCHANGED <<word, i, letters, Arc, l, drawn, shown, error>>

\* ------------------------------------------------------------ the layout
Frac(n, d) == [num |-> n, den |-> d]

\* a name that is not assigned yet
Unset == Frac(0, 0)

Divide360_zero_ok(n) == IF n = 0 THEN Frac(360, 1) ELSE Frac(360, n)

\* 360.0 / n; a fraction with denominator 0 is Python's ZeroDivisionError
Divide360(n) == Frac(360, n)

AngleOf_next_slot(arc, k) == Frac(arc.num * (k + 1), arc.den)

\* Angle = Arc * l
AngleOf(arc, k) == Frac(arc.num * k, arc.den)

\* Angle2 = (180 - Angle) + 90
Angle2Of(angle) == Frac((180 * angle.den - angle.num) + 90 * angle.den, angle.den)

\* the point position(center, radius, angle) returns, in polar form
position(center, radius, angle) ==
    [center |-> center, radius |-> radius, angle |-> angle]

\* angle_of_intersection(r1, r2, d): the exception it raises ("" if none),
\* x, and the argument of the square root
angle_of_intersection(r1, r2, d) ==
    IF d = 0 THEN [err |-> "ZeroDivisionError", x |-> 0, sq |-> 0]
    ELSE LET x == (d * d - r2 * r2 + r1 * r1) \div (2 * d)
             sq == (-d + r2 - r1) * (-d - r2 + r1) * (-d + r2 + r1) * (d + r2 + r1)
         IN  IF sq < 0 THEN [err |-> "ValueError", x |-> x, sq |-> sq]
             ELSE IF d - x = 0 THEN [err |-> "ZeroDivisionError", x |-> x, sq |-> sq]
             ELSE [err |-> "", x |-> x, sq |-> sq]

\* the distance from Center that position() is called with for each shape
PlacementRadius_on_at_rim(shape) ==
    IF shape = POS_IN THEN Radius - (Radius2 + 10)
    ELSE IF shape = POS_ON THEN Radius
    ELSE IF shape = POS_HALF THEN Radius + Extra
    ELSE Radius

PlacementRadius(shape) ==
    IF shape = POS_IN THEN Radius - (Radius2 + 10)
    ELSE IF shape = POS_ON THEN Radius - Radius2
    ELSE IF shape = POS_HALF THEN Radius + Extra
    ELSE Radius

\* a call on draw: slot is the loop index it was made in (-1: before the loop)
Cmd(kind, slot, at, half, paint, base, theta) ==
    [kind |-> kind, slot |-> slot, at |-> at, half |-> half, paint |-> paint,
     base |-> base, theta |-> theta]

NoTheta == [err |-> "", x |-> 0, sq |-> 0]

\* draw.ellipse((Indent, Indent, ImageSize - Indent, ImageSize - Indent), ...)
WordCircle ==
    Cmd("ellipse", -1, position(Center, 0, Frac(0, 1)),
        (ImageSize - 2 * Indent) \div 2, "outline", Frac(0, 1), NoTheta)

LetterCommands_half_one_call(shape, k, arc) ==
    LET Angle == AngleOf(arc, k)
        at == position(Center, PlacementRadius(shape), Angle)
    IN  IF shape = POS_HALF
        THEN << Cmd("arc", k, at, Radius2 * 2, "white", Angle2Of(Angle),
                    angle_of_intersection(Radius, Radius2 * 2, Radius + Extra)) >>
        ELSE << Cmd("ellipse", k, at, Radius2, "outline", Frac(0, 1), NoTheta) >>

\* the calls on draw made by the loop body for a letter of the given shape
LetterCommands(shape, k, arc) ==
    LET Angle == AngleOf(arc, k)
        at == position(Center, PlacementRadius(shape), Angle)
    IN  IF shape = POS_HALF
        THEN << Cmd("ellipse", k, at, Radius2 * 2, "black", Frac(0, 1), NoTheta),
                Cmd("arc", k, at, Radius2 * 2, "white", Angle2Of(Angle),
                    angle_of_intersection(Radius, Radius2 * 2, Radius + Extra)) >>
        ELSE << Cmd("ellipse", k, at, Radius2, "outline", Frac(0, 1), NoTheta) >>

\* lines 227-247: the image, the sizes, and Arc = 360.0 / len(letters)
ComputeArc ==
    /\ pc = "arc"
    /\ IF Divide360(Len(letters)).den = 0
       THEN Raise("ZeroDivisionError") /\ UNCHANGED Arc
       ELSE /\ Arc' = Divide360(Len(letters))
            /\ pc' = "circle"
            /\ UNCHANGED error
    /\ UNCHANGED <<word, i, letters, l, drawn, shown>>

\* line 249: the word circle
DrawWordCircle ==
    /\ pc = "circle"
    /\ drawn' = Append(drawn, WordCircle)
    /\ l' = 0
    /\ pc' = "loop"
    /\ UNCHANGED <<word, i, letters, Arc, shown, error>>

\* one iteration of the for loop, lines 251-271
LayoutStep ==
    /\ pc = "loop"
    /\ l < Len(letters)
    /\ LET tok == letters[l + 1]
       IN  IF tok \notin DOMAIN letter_shapes
           THEN Raise("KeyError") /\ UNCHANGED <<l, drawn>>
           ELSE LET shape == letter_shapes[tok]
                    theta == angle_of_intersection(Radius, Radius2 * 2, Radius + Extra)
                IN  IF shape = POS_HALF /\ theta.err # ""
                    THEN Raise(theta.err) /\ UNCHANGED <<l, drawn>>
                    ELSE /\ drawn' = drawn \o LetterCommands(shape, l, Arc)
                         /\ l' = l + 1
                         /\ UNCHANGED <<pc, error>>
    /\ UNCHANGED <<word, i, letters, Arc, shown>>

\* the for loop is exhausted: im.show()
Show ==
    /\ pc = "loop"
    /\ ~(l < Len(letters))
    /\ shown' = TRUE
    /\ pc' = "done"
    /\ UNCHANGED <<word, i, letters, Arc, l, drawn, error>>

\* the state on entry to translate_word(w)
Start(w) ==
    /\ word = w
    /\ pc = "translate"
    /\ i = 0
    /\ letters = <<>>
    /\ Arc = Unset
    /\ l = 0
    /\ drawn = <<>>
    /\ shown = FALSE
    /\ error = ""

Init == \E w \in Words : Start(w)

FairInit == \E w \in FairWords : Start(w)

Next ==
    \/ TranslateStep
    \/ TranslateReturn
    \/ ComputeArc
    \/ DrawWordCircle
    \/ LayoutStep
    \/ Show

Spec == Init /\ [][Next]_vars

\* the script runs to completion: every enabled statement is executed
FairSpec == FairInit /\ [][Next]_vars /\ WF_vars(Next)

\* ------------------------------------------------------------ properties
\* translate_word has returned its list
Returned == pc \notin {"translate"} /\ error # IndexError

\* the layout ran to im.show()
Done == pc = "done"

\* number of positions at which x is directly followed by y in w
Occ(w, x, y) == Cardinality({p \in 1..(Len(w) - 1) : w[p] = x /\ w[p + 1] = y})

\* number of occurrences of t in s
Count(s, t) == Cardinality({p \in 1..Len(s) : s[p] = t})

\* the character after position k (0-based) of word, None at the end
NextChar(k) == IF k + 1 < length THEN word[k + 2] ELSE None

ShapeOf(k) == letter_shapes[letters[k + 1]]

SlotCmds(k) == {p \in 1..Len(drawn) : drawn[p].slot = k}

HalfSlots == {k \in 0..(Len(letters) - 1) :
                 letters[k + 1] \in DOMAIN letter_shapes /\ ShapeOf(k) = POS_HALF}

\* C1: when translate_word has returned, each of the pairs c-h, n-g, q-u,
\* s-h, t-h of the word has become one token ch, ng, qu, sh, th: the list
\* holds as many tokens of each kind as the word holds occurrences of the
\* pair, and every pair (and every c-k) shortened the list by one.
C1_DigraphsFolded ==
    Returned =>
        /\ Count(letters, "ch") = Occ(word, "c", "h")
        /\ Count(letters, "ng") = Occ(word, "n", "g")
        /\ Count(letters, "qu") = Occ(word, "q", "u")
        /\ Count(letters, "sh") = Occ(word, "s", "h")
        /\ Count(letters, "th") = Occ(word, "t", "h")
        /\ Len(letters) = length - Occ(word, "c", "h") - Occ(word, "n", "g")
                                 - Occ(word, "q", "u") - Occ(word, "s", "h")
                                 - Occ(word, "t", "h") - Occ(word, "c", "k")
        /\ (word \in {<<"c", "h">>, <<"s", "h">>, <<"t", "h">>, <<"q", "u">>,
                      <<"n", "g">>} => Len(letters) = 1)

C1_Witness ==
    /\ Returned
    /\ word = <<"e", "t", "h", "a">>
    /\ letters = <<"e", "th", "a">>

\* C2: an iteration whose cursor is on "c" appends ch and consumes 2 before
\* "h", appends k and consumes 2 before "k", appends k and consumes 1 before
\* a, o, u, l, r or at the end, and appends s and consumes 1 otherwise; "ck",
\* "cat" and "cell" give [k], [k, a, t] and [s, e, l, l]; no list holds "c".
C2_StepOnC ==
    (pc = "translate" /\ i < length /\ word[i + 1] = "c") =>
        LET c2 == NextChar(i)
        IN  IF c2 = "h" THEN letters' = Append(letters, "ch") /\ i' = i + 2
            ELSE IF c2 = "k" THEN letters' = Append(letters, "k") /\ i' = i + 2
            ELSE IF c2 \in {"a", "o", "u", "l", "r", None}
                 THEN letters' = Append(letters, "k") /\ i' = i + 1
            ELSE letters' = Append(letters, "s") /\ i' = i + 1

C2_Results ==
    /\ Count(letters, "c") = 0
    /\ Returned =>
        /\ word = <<"c", "k">> => letters = <<"k">>
        /\ word = <<"c", "a", "t">> => letters = <<"k", "a", "t">>
        /\ word = <<"c", "e", "l", "l">> => letters = <<"s", "e", "l", "l">>

C2_HardSoftC == [][C2_StepOnC]_vars /\ []C2_Results

C2_Witness ==
    /\ Returned
    /\ word = <<"c", "e", "l", "l">>
    /\ letters = <<"s", "e", "l", "l">>

\* C3: translate_word returns for every word, without an exception, and for
\* the empty word it returns the empty list.
C3_Terminates ==
    /\ <>(pc = "arc")
    /\ [](error # IndexError)
    /\ []((pc = "arc" /\ word = <<>>) => letters = <<>>)

C3_Witness ==
    /\ pc = "arc"
    /\ word = <<>>
    /\ letters = <<>>

\* C4 (as claimed): a layout that ran to the end made N + 1 calls on draw.
C4_Original == Done => Len(drawn) = Len(letters) + 1

\* C4 (amended): a layout that ran to the end made one call for the word
\* circle, one for each letter that is not a half circle and two (the filled
\* ellipse, then the arc) for each half circle: N + 1 + H calls.
C4_DrawCount ==
    Done =>
        /\ Len(drawn) = Len(letters) + 1 + Cardinality(HalfSlots)
        /\ Cardinality(SlotCmds(-1)) = 1
        /\ \A k \in 0..(Len(letters) - 1) :
              Cardinality(SlotCmds(k)) = IF k \in HalfSlots THEN 2 ELSE 1

C4_Witness ==
    /\ Done
    /\ letters = <<"th", "s", "k">>
    /\ Len(drawn) = 5

\* C5 (as claimed): when the layout has failed, nothing has been drawn.
C5_NoPartialDrawing == pc = "error" => drawn = <<>>

\* C6: with an empty list of letters the script stops at the division with
\* a ZeroDivisionError, before anything is drawn, and im.show() is not reached.
C6_EmptyFails ==
    (Len(letters) = 0 /\ pc \notin {"translate", "arc"}) =>
        /\ pc = "error"
        /\ error = "ZeroDivisionError"
        /\ drawn = <<>>
        /\ ~shown

C6_Witness ==
    /\ word = <<>>
    /\ pc = "error"
    /\ error = "ZeroDivisionError"
    /\ drawn = <<>>

\* C7 (as claimed): if every q of the word is followed by u, every letter of
\* the list has a shape, a dot count and a line count, and the layout does
\* not stop with a KeyError.
C7_AlphabetComplete ==
    (\A p \in 1..length : word[p] = "q" => NextChar(p - 1) = "u") =>
        /\ \A k \in 1..Len(letters) :
              letters[k] \in (DOMAIN letter_shapes \cap DOMAIN letter_dots
                                \cap DOMAIN letter_lines)
        /\ error # "KeyError"

\* C8: the first call on draw is the word circle, the calls after it belong
\* to the letters in index order with none left out, the calls of letter k
\* are placed at angle k * 360 / N, and when the layout is done every letter
\* has its calls.
C8_DrawOrder ==
    /\ drawn # <<>> => drawn[1] = WordCircle
    /\ \A p \in 2..Len(drawn) :
          /\ drawn[p].slot \in 0..(Len(letters) - 1)
          /\ drawn[p].slot < l
          /\ drawn[p].at.angle.den = Len(letters)
          /\ drawn[p].at.angle.num = drawn[p].slot * 360
          /\ drawn[p].at.center = Center
          /\ \A q \in 2..p : drawn[q].slot <= drawn[p].slot
    /\ \A k \in 0..(l - 1) : SlotCmds(k) # {}
    /\ Done => l = Len(letters)

C8_Witness ==
    /\ Done
    /\ letters = <<"k", "th", "s">>
    /\ drawn[1] = WordCircle
    /\ drawn[3].at.angle = Frac(360, 3)
    /\ drawn[5].at.angle = Frac(720, 3)

\* C9 (as claimed): ON_RIM and THROUGH_RIM letters are both centered at the
\* word circle's radius, INSIDE letters nearer, HALF_RIM letters farther.
C9_Original ==
    \A p \in 2..Len(drawn) :
        LET shape == ShapeOf(drawn[p].slot)
            dist == drawn[p].at.radius
        IN  /\ shape = POS_ON => dist = Radius
            /\ shape = POS_THRU => dist = Radius
            /\ shape = POS_IN => dist < Radius
            /\ shape = POS_HALF => dist > Radius /\ dist = Radius + Extra

\* C9 (amended): a THROUGH_RIM letter is centered at the word circle's
\* radius; an ON_RIM letter at that radius minus the letter circle's radius,
\* so strictly nearer; an INSIDE letter strictly nearer still; a HALF_RIM
\* letter strictly farther, at radius + extra.
C9_Placement ==
    \A p \in 2..Len(drawn) :
        LET shape == ShapeOf(drawn[p].slot)
            dist == drawn[p].at.radius
        IN  /\ shape = POS_THRU => dist = Radius
            /\ shape = POS_ON => dist = Radius - Radius2 /\ dist < Radius
            /\ shape = POS_IN => dist < Radius - Radius2
            /\ shape = POS_HALF => dist > Radius /\ dist = Radius + Extra

C9_Witness ==
    /\ Done
    /\ letters = <<"h", "k", "th">>
    /\ drawn[2].at.radius = Radius - Radius2
    /\ drawn[3].at.radius < drawn[2].at.radius
    /\ drawn[4].at.radius = Radius

\* the characters a token stands for, when it is spelled as they are
Spelling(t) ==
    IF t = "ch" THEN <<"c", "h">>
    ELSE IF t = "ng" THEN <<"n", "g">>
    ELSE IF t = "qu" THEN <<"q", "u">>
    ELSE IF t = "sh" THEN <<"s", "h">>
    ELSE IF t = "th" THEN <<"t", "h">>
    ELSE <<t>>

\* C10: the cursor never passes the end of the word; an iteration consumes
\* one or two characters and appends one token, which spells the characters
\* consumed (k or s for "c", k for "ck"); the returned list has between
\* ceil(len / 2) and len tokens.
C10_StepConsumes ==
    TranslateStep =>
        /\ i' - i \in {1, 2}
        /\ i' <= length
        /\ Len(letters') = Len(letters) + 1
        /\ SubSeq(letters', 1, Len(letters)) = letters
        /\ LET eaten == SubSeq(word, i + 1, i')
               tok == letters'[Len(letters')]
           IN  \/ Spelling(tok) = eaten
               \/ eaten = <<"c">> /\ tok \in {"k", "s"}
               \/ eaten = <<"c", "k">> /\ tok = "k"

C10_Bounds ==
    /\ i <= length
    /\ Returned => /\ i = length
                   /\ Len(letters) <= length
                   /\ 2 * Len(letters) >= length

C10_Scan == [][C10_StepConsumes]_vars /\ []C10_Bounds

C10_Witness ==
    /\ Returned
    /\ word = <<"c", "k", "s", "h">>
    /\ letters = <<"k", "sh">>
====
